---------------------------- MODULE Spec2Model ----------------------------
(***************************************************************************)
(* A model of the two lint checks of pylint_plugins:                       *)
(*   header.py      check_header / content_lines                           *)
(*   spellcheck.py  check_spelling                                         *)
(* Lines of text are TLA+ strings; every test the code makes on a line     *)
(* (strip, startswith, endswith, the regular expressions, str.format,      *)
(* re.split, fnmatch) is computed character by character.                  *)
(***************************************************************************)
EXTENDS Integers, Sequences, FiniteSets, TLC

VARIABLES
    pc,               \* position of the running call
    consumer,         \* who iterates content_lines: "check_header" or "list"
    header_ref,       \* raw lines of the reference header file, or NoRef
    stream,           \* raw lines of the linted file, as the streamer gives them
    num,              \* enumerate() index of the next line of stream
    shebang_line,     \* content_lines local
    in_mod_docstring, \* content_lines local
    mod_string_done,  \* content_lines local
    yielded,          \* every (num + 1, line) pair content_lines has yielded
    header_lines,     \* check_header local: the compiled patterns
    linenos,          \* check_header local and result
    run,              \* 1 for the first check of the file, 2 after an edit
    edited,           \* number of the line edited before the second check, or 0
    first_yielded,    \* what the first check saw content_lines yield
    sp                \* the state of a check_spelling call (a record)

vars == <<pc, consumer, header_ref, stream, num, shebang_line, in_mod_docstring,
          mod_string_done, yielded, header_lines, linenos, run, edited,
          first_yielded, sp>>

-----------------------------------------------------------------------------
(* Bounds *)

\* Longest linted file of the header check, in lines.
MaxLines == 3

\* Longest linted file of the spelling check, in lines.
MaxSpellLines == 2

-----------------------------------------------------------------------------
(* Strings *)

\* s[a:b + 1] with Python's clipping of the slice to the string.
Slice(s, a, b) ==
    LET lo == IF a < 1 THEN 1 ELSE a
        hi == IF b > Len(s) THEN Len(s) ELSE b
    IN  IF lo > hi THEN "" ELSE SubSeq(s, lo, hi)

\* The i-th character of s, or "" past its ends.
Ch(s, i) == Slice(s, i, i)

StartsWith(s, p) == Slice(s, 1, Len(p)) = p

EndsWith(s, p) == Len(p) <= Len(s) /\ Slice(s, Len(s) - Len(p) + 1, Len(s)) = p

DropPrefix(s, n) == Slice(s, n + 1, Len(s))

\* The characters str.strip() and str.rstrip() remove, and \s matches.
Whitespace == {" ", "\t", "\n", "\r", "\f"}

RECURSIVE RStrip(_)
RStrip(s) ==
    IF s # "" /\ Ch(s, Len(s)) \in Whitespace
    THEN RStrip(Slice(s, 1, Len(s) - 1))
    ELSE s

RECURSIVE LStrip(_)
LStrip(s) ==
    IF s # "" /\ Ch(s, 1) \in Whitespace
    THEN LStrip(DropPrefix(s, 1))
    ELSE s

Strip(s) == LStrip(RStrip(s))

Digit(d) == Ch("0123456789", d + 1)

\* str() of a non-negative integer, as str.format renders current_year.
RECURSIVE IntToStr(_)
IntToStr(n) == IF n < 10 THEN Digit(n) ELSE IntToStr(n \div 10) \o Digit(n % 10)

\* os.path.basename of an absolute, normalised path.
RECURSIVE Basename(_)
Basename(p) ==
    IF p = "" \/ Ch(p, Len(p)) = "/" THEN ""
    ELSE Basename(Slice(p, 1, Len(p) - 1)) \o Ch(p, Len(p))

-----------------------------------------------------------------------------
(* header.py: the regular expressions *)

\* re.match of a compiled pattern: the pattern at the start of s.  The syntax
\* covered is what reference header lines are written in: literal characters,
\* ".", "\c" (the character c itself), "x*", "^" first and "$" last, and
\* "(" ... ")" groups with neither alternation nor a quantifier behind them.
AtomLen(p, i) == IF Ch(p, i) = "\\" THEN 2 ELSE 1

AtomMatches(p, i, c) ==
    IF Ch(p, i) = "\\" THEN c = Ch(p, i + 1)
    ELSE IF Ch(p, i) = "." THEN c # "\n"
    ELSE c = Ch(p, i)

RECURSIVE MatchHere(_, _, _, _)
MatchHere(p, i, s, j) ==
    IF i > Len(p) THEN TRUE
    ELSE IF Ch(p, i) = "^" THEN j = 1 /\ MatchHere(p, i + 1, s, j)
    ELSE IF Ch(p, i) = "$" /\ i = Len(p)
         THEN j > Len(s) \/ (j = Len(s) /\ Ch(s, j) = "\n")
    ELSE IF Ch(p, i) \in {"(", ")"} THEN MatchHere(p, i + 1, s, j)
    ELSE IF Ch(p, i + AtomLen(p, i)) = "*"
         THEN \/ MatchHere(p, i + AtomLen(p, i) + 1, s, j)
              \/ /\ j <= Len(s)
                 /\ AtomMatches(p, i, Ch(s, j))
                 /\ MatchHere(p, i, s, j + 1)
    ELSE /\ j <= Len(s)
         /\ AtomMatches(p, i, Ch(s, j))
         /\ MatchHere(p, i + AtomLen(p, i), s, j + 1)

ReMatchLiteral(p, s) == "^" \o s \o "$" = p
ReMatch(p, s) == MatchHere(p, 1, s, 1)

\* shebang_line_regexp = ^#!.*[ \\/](bash|python)$
shebang_line_regexp(line) ==
    /\ StartsWith(line, "#!")
    /\ \E w \in {"bash", "python"} :
          /\ EndsWith(line, w)
          /\ Len(line) - Len(w) >= 3
          /\ Ch(line, Len(line) - Len(w)) \in {" ", "\\", "/"}

TripleQuotes == {"'''", "\"\"\""}

\* sl_mod_docstring = ('''|""").*('''|""") , matched at the start of the line
sl_mod_docstring(line) ==
    /\ \E q \in TripleQuotes : StartsWith(line, q)
    /\ \E k \in 4..Len(line) : Slice(line, k, k + 2) \in TripleQuotes

comment == "#"

\* cregexp = ^{comment} -\*- coding: utf-8 -\*-\s* , matched at the start
cregexp(line) == StartsWith(line, comment \o " -*- coding: utf-8 -*-")

encoding_dribble == "ï»¿"


-----------------------------------------------------------------------------
(* header.py: check_header's inputs *)

fname == "/proj/pkg/foo.py"

current_year == 2019

\* No reference header: header_ref is empty and _find_header_ref finds none.
NoRef == <<"-">>

\* The documented example's reference header.
ExampleHeader ==
    << "{comment} {fullname}\n", "{comment} Copyright (c) {current_year}\n" >>

EscapedHeader ==
    << "{comment} {fullname}\n", "{comment} Copyright \\(c\\) {current_year}\n" >>

\* The reference header files checked against.
HeaderRefs ==
    { ExampleHeader,
      EscapedHeader,
      << "  {comment} {basename} *\n" >>,
      << >> }

\* The raw lines linted files are made of.
FileLines ==
    { "#!/bin/bash\n",
      "# -*- coding: utf-8 -*-\n",
      "\"\"\"Doc.\"\"\"\n",
      "\"\"\"Doc\n",
      "end.\"\"\"  \n",
      "# foo.py\n",
      "# bar.py\n",
      "# Copyright (c) 2019\n",
      encoding_dribble \o "# foo.py\n" }

\* The documented example's file.
ExampleFile == << "# bar.py\n", "# Copyright (c) 2019\n" >>

Files == UNION { [1..n -> FileLines] : n \in 0..MaxLines }

\* str.format(comment=, fullname=, basename=, current_year=) of a line whose
\* braces are these four placeholders.
RECURSIVE Format(_)
Format(s) ==
    LET name == Basename(fname)
        Sub(ph, value) == value \o Format(DropPrefix(s, Len(ph)))
    IN  IF s = "" THEN ""
        ELSE IF StartsWith(s, "{comment}") THEN Sub("{comment}", comment)
        ELSE IF StartsWith(s, "{fullname}") THEN Sub("{fullname}", name)
        ELSE IF StartsWith(s, "{basename}") THEN Sub("{basename}", name)
        ELSE IF StartsWith(s, "{current_year}")
             THEN Sub("{current_year}", IntToStr(current_year))
        ELSE Ch(s, 1) \o Format(DropPrefix(s, 1))

\* The idle state of check_spelling, while a header check runs.
SpellIdle == [pc |-> "idle"]

-----------------------------------------------------------------------------
(* header.py: content_lines *)

\* The line under the cursor, after _tostr(line).rstrip() and the removal of
\* the encoding dribble on the first line.
Line ==
    LET line == RStrip(stream[num + 1])
    IN  IF num = 0 /\ StartsWith(line, encoding_dribble)
        THEN DropPrefix(line, Len(encoding_dribble))
        ELSE line

IsShebang == num = 0 /\ shebang_line_regexp(Line)

EncodingPosition == IF shebang_line THEN 1 ELSE 0

IsEncodingOnFirstLineOnly == num = 0 /\ cregexp(Line)
IsEncoding == num = EncodingPosition /\ cregexp(Line)

IsSlDocstring == num = 0 /\ sl_mod_docstring(Line)

OpensDocstring == num = 0 /\ ~mod_string_done /\ StartsWith(Line, "\"\"\"")

ClosesDocstring == in_mod_docstring /\ EndsWith(Line, "\"\"\"")

InDocstring == ~mod_string_done /\ in_mod_docstring

LineNumberZeroBased(n) == n
LineNumber(n) == n + 1

Reading == pc = "content_lines" /\ num < Len(stream)

Skip ==
    /\ num' = num + 1
    /\ UNCHANGED <<pc, consumer, header_ref, stream, yielded, header_lines,
                   linenos, run, edited, first_yielded, sp>>

SkipShebang ==
    /\ Reading
    /\ IsShebang
    /\ shebang_line' = TRUE
    /\ UNCHANGED <<in_mod_docstring, mod_string_done>>
    /\ Skip

SkipEncoding ==
    /\ Reading
    /\ ~IsShebang
    /\ IsEncoding
    /\ UNCHANGED <<shebang_line, in_mod_docstring, mod_string_done>>
    /\ Skip

SkipSlDocstring ==
    /\ Reading
    /\ ~IsShebang /\ ~IsEncoding
    /\ IsSlDocstring
    /\ UNCHANGED <<shebang_line, in_mod_docstring, mod_string_done>>
    /\ Skip

EnterDocstring ==
    /\ Reading
    /\ ~IsShebang /\ ~IsEncoding /\ ~IsSlDocstring
    /\ OpensDocstring
    /\ in_mod_docstring' = TRUE
    /\ UNCHANGED <<shebang_line, mod_string_done>>
    /\ Skip

CloseDocstring ==
    /\ Reading
    /\ ~IsShebang /\ ~IsEncoding /\ ~IsSlDocstring /\ ~OpensDocstring
    /\ ClosesDocstring
    /\ in_mod_docstring' = FALSE
    /\ mod_string_done' = TRUE
    /\ UNCHANGED shebang_line
    /\ Skip

SkipDocstringLine ==
    /\ Reading
    /\ ~IsShebang /\ ~IsEncoding /\ ~IsSlDocstring /\ ~OpensDocstring
    /\ ~ClosesDocstring
    /\ InDocstring
    /\ UNCHANGED <<shebang_line, in_mod_docstring, mod_string_done>>
    /\ Skip

\* yield num + 1, line: the pair goes to whoever iterates.
YieldLine ==
    /\ Reading
    /\ ~IsShebang /\ ~IsEncoding /\ ~IsSlDocstring /\ ~OpensDocstring
    /\ ~ClosesDocstring /\ ~InDocstring
    /\ yielded' = Append(yielded, <<LineNumber(num), Line>>)
    /\ num' = num + 1
    /\ pc' = IF consumer = "check_header" THEN "zip" ELSE "content_lines"
    /\ UNCHANGED <<consumer, header_ref, stream, shebang_line, in_mod_docstring,
                   mod_string_done, header_lines, linenos, run, edited,
                   first_yielded, sp>>

\* The stream is exhausted: the generator returns and the iteration ends.
StreamExhausted ==
    /\ pc = "content_lines"
    /\ num = Len(stream)
    /\ pc' = "done"
    /\ UNCHANGED <<consumer, header_ref, stream, num, shebang_line,
                   in_mod_docstring, mod_string_done, yielded, header_lines,
                   linenos, run, edited, first_yielded, sp>>

-----------------------------------------------------------------------------
(* header.py: check_header *)

\* No reference header: the check is skipped.
SkipHeaderCheck ==
    /\ pc = "check_header"
    /\ header_ref = NoRef
    /\ linenos' = << >>
    /\ pc' = "done"
    /\ UNCHANGED <<consumer, header_ref, stream, num, shebang_line,
                   in_mod_docstring, mod_string_done, yielded, header_lines,
                   run, edited, first_yielded, sp>>

\* re.compile("^" + line + "$") of a formatted, stripped reference line.
Compile(line) == "^" \o Format(Strip(line)) \o "$"

ReadHeaderRef ==
    /\ pc = "check_header"
    /\ header_ref # NoRef
    /\ header_lines' = [i \in 1..Len(header_ref) |-> Compile(header_ref[i])]
    /\ linenos' = << >>
    /\ pc' = "content_lines"
    /\ UNCHANGED <<consumer, header_ref, stream, num, shebang_line,
                   in_mod_docstring, mod_string_done, yielded, run, edited,
                   first_yielded, sp>>

FlaggedWhenMatching(regexp, line) == ReMatch(regexp, line)
Flagged(regexp, line) == ~ReMatch(regexp, line)

\* zip has a content pair in hand and takes the next pattern.
ZipPair ==
    /\ pc = "zip"
    /\ Len(yielded) <= Len(header_lines)
    /\ LET k == Len(yielded)
       IN  linenos' = IF Flagged(header_lines[k], yielded[k][2])
                      THEN Append(linenos, yielded[k][1])
                      ELSE linenos
    /\ pc' = "content_lines"
    /\ UNCHANGED <<consumer, header_ref, stream, num, shebang_line,
                   in_mod_docstring, mod_string_done, yielded, header_lines,
                   run, edited, first_yielded, sp>>

\* zip has a content pair in hand and the patterns are exhausted.
ZipStop ==
    /\ pc = "zip"
    /\ Len(yielded) > Len(header_lines)
    /\ pc' = "done"
    /\ UNCHANGED <<consumer, header_ref, stream, num, shebang_line,
                   in_mod_docstring, mod_string_done, yielded, header_lines,
                   linenos, run, edited, first_yielded, sp>>

\* Line i is one the header check is about: one of the file's first K lines,
\* or a line that was paired with a pattern.
Covered(i) ==
    \/ i <= Len(header_lines)
    \/ \E j \in 1..Len(header_lines) : j <= Len(yielded) /\ yielded[j][1] = i

\* The file, of at least as many lines as the reference header, passed the
\* check; one of the lines the check is about is replaced by another text and
\* the file is checked again.
EditLine ==
    /\ pc = "done"
    /\ consumer = "check_header"
    /\ run = 1
    /\ header_ref # NoRef
    /\ linenos = << >>
    /\ Len(header_lines) <= Len(stream)
    /\ \E i \in 1..Len(stream) : \E text \in FileLines \ {stream[i]} :
          /\ Covered(i)
          /\ stream' = [stream EXCEPT ![i] = text]
          /\ edited' = i
    /\ first_yielded' = yielded
    /\ run' = 2
    /\ num' = 0
    /\ shebang_line' = FALSE
    /\ in_mod_docstring' = FALSE
    /\ mod_string_done' = FALSE
    /\ yielded' = << >>
    /\ header_lines' = << >>
    /\ pc' = "check_header"
    /\ UNCHANGED <<consumer, header_ref, linenos, sp>>

InitHeader ==
    /\ consumer \in {"check_header", "list"}
    /\ header_ref \in (IF consumer = "list" THEN {NoRef}
                       ELSE HeaderRefs \cup {NoRef})
    /\ pc = IF consumer = "list" THEN "content_lines" ELSE "check_header"
    /\ stream \in Files
    /\ num = 0
    /\ shebang_line = FALSE
    /\ in_mod_docstring = FALSE
    /\ mod_string_done = FALSE
    /\ yielded = << >>
    /\ header_lines = << >>
    /\ linenos = << >>
    /\ run = 1
    /\ edited = 0
    /\ first_yielded = << >>
    /\ sp = SpellIdle

NextHeader ==
    \/ SkipHeaderCheck
    \/ ReadHeaderRef
    \/ SkipShebang
    \/ SkipEncoding
    \/ SkipSlDocstring
    \/ EnterDocstring
    \/ CloseDocstring
    \/ SkipDocstringLine
    \/ YieldLine
    \/ StreamExhausted
    \/ ZipPair
    \/ ZipStop
    \/ EditLine

SpecHeader == InitHeader /\ [][NextHeader]_vars

-----------------------------------------------------------------------------
(* Properties of content_lines and check_header *)

Min(a, b) == IF a <= b THEN a ELSE b

\* The line numbers content_lines has yielded.
YieldedNumbers == { yielded[k][1] : k \in 1..Len(yielded) }

\* content_lines has been iterated to the end of the iteration.
Iterated == pc = "done" /\ (consumer = "list" \/ header_ref # NoRef)

\* Line n of the file as the classifier sees it.
Seen(n) ==
    LET line == RStrip(stream[n])
    IN  IF n = 1 /\ StartsWith(line, encoding_dribble)
        THEN DropPrefix(line, Len(encoding_dribble))
        ELSE line

HasShebang == Len(stream) >= 1 /\ shebang_line_regexp(Seen(1))

HasEncoding ==
    LET at == IF HasShebang THEN 2 ELSE 1
    IN  Len(stream) >= at /\ cregexp(Seen(at))

\* The first line that is neither the shebang nor the encoding declaration.
FirstEligible ==
    1 + (IF HasShebang THEN 1 ELSE 0) + (IF HasEncoding THEN 1 ELSE 0)

\* The first line after line e that ends with the triple quote, or the last
\* line of the file when none does.
DocstringEnd(e) ==
    LET closing == { n \in (e + 1)..Len(stream) : EndsWith(Seen(n), "\"\"\"") }
    IN  IF closing = {} THEN Len(stream)
        ELSE CHOOSE n \in closing : \A m \in closing : n <= m

\* text is raw without its trailing whitespace and, on line 1, without a
\* leading encoding dribble.
IsOriginalLine(n, text, raw) ==
    \E m \in 0..Len(raw) :
        /\ \A k \in (m + 1)..Len(raw) : Ch(raw, k) \in Whitespace
        /\ m > 0 => Ch(raw, m) \notin Whitespace
        /\ LET kept == Slice(raw, 1, m)
           IN  text = IF n = 1 /\ StartsWith(kept, encoding_dribble)
                      THEN DropPrefix(kept, Len(encoding_dribble))
                      ELSE kept

\* C1 as claimed: after a file that passed is changed in one of its first K
\* lines, check_header returns exactly that line's number, whatever the new
\* text is.
C1_AnyReplacementFlagsItsLine ==
    (pc = "done" /\ run = 2) => linenos = <<edited>>

\* The edited line was the j-th content line of the file that passed, is still
\* the j-th content line, and does not match the j-th pattern.
EditedStaysContent(j) ==
    /\ j <= Len(first_yielded) /\ first_yielded[j][1] = edited
    /\ j <= Len(yielded) /\ yielded[j][1] = edited
    /\ ~ReMatch(header_lines[j], yielded[j][2])

\* C1 amended: when a file that passed is changed in one content line paired
\* with a pattern, to a text that is still yielded as content and does not
\* match that pattern, check_header returns exactly that line's number.
C1_ContentReplacementFlagsItsLine ==
    (/\ pc = "done" /\ run = 2
     /\ \E j \in 1..Len(header_lines) : EditedStaysContent(j))
    => linenos = <<edited>>

C1_Witness ==
    /\ pc = "done" /\ run = 2
    /\ \E j \in 1..Len(header_lines) : EditedStaysContent(j)
    /\ edited = 2
    /\ linenos = <<2>>

\* C2 as claimed: a docstring on the first line that is neither shebang nor
\* encoding declaration is not content, wherever that line is: the line alone
\* when it opens and closes the triple quote, the run up to the closing line
\* when it only opens it.
C2_DocstringOnFirstEligibleLine ==
    (/\ pc = "done" /\ consumer = "list"
     /\ FirstEligible <= Len(stream))
    => LET e == FirstEligible
       IN  /\ sl_mod_docstring(Seen(e)) => e \notin YieldedNumbers
           /\ (~sl_mod_docstring(Seen(e)) /\ StartsWith(Seen(e), "\"\"\""))
              => \A n \in e..DocstringEnd(e) : n \notin YieldedNumbers

\* C4: every pair yielded carries the 1-based number of its line in the file
\* and that line's text less trailing whitespace (and less the encoding
\* dribble on line 1), and the numbers are strictly increasing.
C4_YieldedPairsAreOriginalLines ==
    \A k \in 1..Len(yielded) :
        LET n == yielded[k][1]
        IN  /\ n \in 1..Len(stream)
            /\ IsOriginalLine(n, yielded[k][2], stream[n])
            /\ k > 1 => yielded[k - 1][1] < n

C4_Witness ==
    /\ pc = "done" /\ consumer = "list"
    /\ Len(stream) = 3
    /\ StartsWith(stream[1], encoding_dribble)
    /\ yielded # << >> /\ yielded[1] = <<1, "# foo.py">>
    /\ \E k \in 1..Len(yielded) :
          yielded[k][1] = 3 /\ yielded[k][2] = "end.\"\"\""

ExampleChecked ==
    /\ pc = "done" /\ consumer = "check_header" /\ run = 1
    /\ header_ref = ExampleHeader
    /\ stream = ExampleFile
    /\ Basename(fname) = "foo.py"
    /\ current_year = 2019

\* C6 as claimed: the example's result is [1].
C6_ExampleFlagsLineOne == ExampleChecked => linenos = <<1>>

\* C6 amended: the example's result is [1, 2]; "(c)" in the pattern is a group
\* that matches the letter c, not the text "(c)" of line 2.
C6_ExampleFlagsBothLines == ExampleChecked => linenos = <<1, 2>>

C6_Witness == ExampleChecked /\ Len(linenos) = 2

\* The numbers of the content lines, among the first min(K, M), that do not
\* match the pattern of their position.
RECURSIVE Mismatches(_)
Mismatches(k) ==
    IF k = 0 THEN << >>
    ELSE IF ~ReMatch(header_lines[k], yielded[k][2])
         THEN Append(Mismatches(k - 1), yielded[k][1])
         ELSE Mismatches(k - 1)

\* C10: the result is exactly the numbers of the i-th content lines,
\* i <= min(K, M), that do not match the i-th pattern: at most min(K, M)
\* numbers, strictly increasing.
C10_PositionalPairing ==
    (pc = "done" /\ consumer = "check_header" /\ header_ref # NoRef)
    => LET paired == Min(Len(header_lines), Len(yielded))
       IN  /\ linenos = Mismatches(paired)
           /\ Len(linenos) <= paired
           /\ \A i \in 2..Len(linenos) : linenos[i - 1] < linenos[i]

C10_Witness ==
    /\ pc = "done" /\ consumer = "check_header" /\ header_ref # NoRef
    /\ Len(header_lines) = 1
    /\ Len(yielded) = 2
    /\ linenos = <<2>>
    /\ ~ReMatch(header_lines[1], yielded[2][2])

-----------------------------------------------------------------------------
(* spellcheck.py: paths and patterns *)

\* The paths below are absolute or relative to cwd, with no ".", ".." or empty
\* component, so that os.path.abspath only joins and drops a trailing "/".

cwd == "/proj"

\* The linted file, as os.path.abspath(fname) gives it.
spell_fname == "/proj/pkg/mod.py"

REF_WHITELIST == "data/whitelist.en.pws"

REF_EXCLUDE == "data/exclude-spelling"

\* os.path.dirname
RECURSIVE Dirname(_)
Dirname(p) ==
    IF p = "" THEN ""
    ELSE IF Ch(p, Len(p)) = "/"
         THEN IF Len(p) = 1 THEN "/" ELSE Slice(p, 1, Len(p) - 1)
    ELSE Dirname(Slice(p, 1, Len(p) - 1))

\* os.path.join of a directory and a relative path
Join(dir, rel) == IF EndsWith(dir, "/") THEN dir \o rel ELSE dir \o "/" \o rel

Isabs(p) == StartsWith(p, "/")

Abspath(p) ==
    LET full == IF Isabs(p) THEN p ELSE Join(cwd, p)
    IN  IF Len(full) > 1 /\ EndsWith(full, "/")
        THEN Slice(full, 1, Len(full) - 1)
        ELSE full

\* _find_ref_fname's loop from directory dir upwards, over the files of disk.
RECURSIVE FindUpwards(_, _, _)
FindUpwards(disk, dir, ref_fname) ==
    IF Join(dir, ref_fname) \in DOMAIN disk THEN Join(dir, ref_fname)
    ELSE IF Dirname(dir) = dir THEN ""
    ELSE FindUpwards(disk, Dirname(dir), ref_fname)

_find_ref_fname(disk, file, ref_fname) ==
    FindUpwards(disk, Dirname(Dirname(Abspath(file))), ref_fname)

_make_abspath(value) ==
    LET v == Strip(value)
    IN  IF Isabs(v) THEN v ELSE Abspath(Join(cwd, v))

\* fnmatch.fnmatch on a POSIX system, for patterns made of literal characters,
\* "*" and "?".
RECURSIVE GlobHere(_, _, _, _)
GlobHere(p, i, s, j) ==
    IF i > Len(p) THEN j > Len(s)
    ELSE IF Ch(p, i) = "*"
         THEN \/ GlobHere(p, i + 1, s, j)
              \/ j <= Len(s) /\ GlobHere(p, i, s, j + 1)
    ELSE /\ j <= Len(s)
         /\ Ch(p, i) = "?" \/ Ch(p, i) = Ch(s, j)
         /\ GlobHere(p, i + 1, s, j + 1)

fnmatch(name, pattern) == GlobHere(pattern, 1, name, 1)

ExcludedByAll(file, lines) ==
    \A k \in 1..Len(lines) : fnmatch(file, _make_abspath(Strip(lines[k])))
\* any(fnmatch(fname, pattern) for pattern in patterns), the patterns being
\* the lines _read_file gives, made absolute.
ExcludedBy(file, lines) ==
    \E k \in 1..Len(lines) : fnmatch(file, _make_abspath(Strip(lines[k])))

Letters ==
    { Ch("abcdefghijklmnopqrstuvwxyzABCDEFGHIJKLMNOPQRSTUVWXYZ", k) : k \in 1..52 }

\* re.split("[^a-zA-Z]", line)
RECURSIVE Split(_)
Split(line) ==
    IF line = "" THEN << "" >>
    ELSE LET rest == Split(DropPrefix(line, 1))
         IN  IF Ch(line, 1) \in Letters
             THEN << Ch(line, 1) \o Head(rest) >> \o Tail(rest)
             ELSE << "" >> \o rest

WhitelistItemRaw(item) == item
\* item.strip() of a line of the whitelist file
WhitelistItem(item) == Strip(item)

-----------------------------------------------------------------------------
(* spellcheck.py: check_spelling's inputs *)

\* The local variable whitelist before any assignment to it.
Unbound == << "<unbound>" >>

WhitelistArgs == { "", " /cfg/wl.pws ", "/cfg/none.pws" }

ExcludeArgs == { "", "/cfg/none" }

\* What may be on disk beside the linted file.
WhitelistFiles ==
    { << >>,
      [p \in {"/cfg/wl.pws"} |-> << " Teh \n", "fox\n" >>],
      [p \in {"/cfg/wl.pws", "/data/whitelist.en.pws"} |-> << "Teh\n", "\n" >>] }

ExcludeFiles ==
    { << >>,
      [p \in {"/proj/data/exclude-spelling"} |-> << "pkg/*.py\n" >>],
      [p \in {"/proj/data/exclude-spelling"} |->
          << "docs/*\n", " /proj/pkg/mo?.py \n" >>],
      [p \in {"/proj/data/exclude-spelling"} |-> << "*/pkg/*\n", "\n" >>] }

\* The raw lines linted files are made of.
SpellLines == { "Teh quick fox.\n", "  a  b\n", "\n", "quick\n" }

SpellFiles == UNION { [1..n -> SpellLines] : n \in 0..MaxSpellLines }

\* The words hunspell knows; spell(word) answers whether word is one of them.
Dictionaries ==
    { {},
      { "" },
      { "", "quick", "a", "b" },
      { "", "quick", "a", "b", "fox", "Teh" } }

\* Two sets of files on disk, put together.
Merge(f, g) ==
    [p \in DOMAIN f \cup DOMAIN g |-> IF p \in DOMAIN f THEN f[p] ELSE g[p]]

-----------------------------------------------------------------------------
(* spellcheck.py: check_spelling *)

hvars == <<pc, consumer, header_ref, stream, num, shebang_line,
           in_mod_docstring, mod_string_done, yielded, header_lines, linenos,
           run, edited, first_yielded>>

Exists(path) == path \in DOMAIN sp.disk

\* Lines 130-132: the reference files are resolved.
ResolveRefs ==
    /\ sp.pc = "check_spelling"
    /\ sp' = [sp EXCEPT
                !.pc = "whitelist",
                !.whitelist_fname =
                    IF Strip(sp.whitelist_arg) # "" THEN Strip(sp.whitelist_arg)
                    ELSE _find_ref_fname(sp.disk, spell_fname, REF_WHITELIST),
                !.exclude_fname =
                    IF Strip(sp.exclude_arg) # "" THEN Strip(sp.exclude_arg)
                    ELSE _find_ref_fname(sp.disk, spell_fname, REF_EXCLUDE)]
    /\ UNCHANGED hvars

\* Line 133: no whitelist file name; whitelist is not assigned.
NoWhitelist ==
    /\ sp.pc = "whitelist"
    /\ sp.whitelist_fname = ""
    /\ sp' = [sp EXCEPT !.pc = "exclude"]
    /\ UNCHANGED hvars

\* Lines 134-137: the whitelist file does not exist; a warning, and whitelist
\* stays the empty list.
WhitelistNotFound ==
    /\ sp.pc = "whitelist"
    /\ sp.whitelist_fname # ""
    /\ ~Exists(Abspath(sp.whitelist_fname))
    /\ sp' = [sp EXCEPT !.pc = "exclude",
                        !.whitelist_fname = Abspath(sp.whitelist_fname),
                        !.whitelist = << >>]
    /\ UNCHANGED hvars

\* Lines 138-140: the whitelist file is read.
ReadWhitelist ==
    /\ sp.pc = "whitelist"
    /\ sp.whitelist_fname # ""
    /\ Exists(Abspath(sp.whitelist_fname))
    /\ LET items == sp.disk[Abspath(sp.whitelist_fname)]
       IN  sp' = [sp EXCEPT
                    !.pc = "exclude",
                    !.whitelist_fname = Abspath(sp.whitelist_fname),
                    !.whitelist =
                        [k \in 1..Len(items) |-> WhitelistItem(items[k])]]
    /\ UNCHANGED hvars

\* Lines 142-150: does the exclude file exist and does one of its patterns
\* match the linted file?
FileIsExcluded ==
    LET exclude_fname ==
            IF sp.exclude_fname # "" THEN Abspath(sp.exclude_fname) ELSE ""
    IN  /\ Exists(exclude_fname)
        /\ ExcludedBy(spell_fname, sp.disk[exclude_fname])

\* Line 150: return [].
Excluded ==
    /\ sp.pc = "exclude"
    /\ FileIsExcluded
    /\ sp' = [sp EXCEPT !.pc = "done", !.ret = << >>]
    /\ UNCHANGED hvars

NotExcluded ==
    /\ sp.pc = "exclude"
    /\ ~FileIsExcluded
    /\ sp' = [sp EXCEPT !.pc = "hunspell"]
    /\ UNCHANGED hvars

\* Lines 151-152: spell_obj = hunspell.Hunspell("en_US"); ret = [].
ConstructHunspell ==
    /\ sp.pc = "hunspell"
    /\ sp' = [sp EXCEPT !.pc = "open", !.constructed = TRUE, !.ret = << >>]
    /\ UNCHANGED hvars

\* Line 153: the linted file is opened.
OpenFile ==
    /\ sp.pc = "open"
    /\ sp' = [sp EXCEPT !.pc = "read", !.opened = TRUE, !.num = 0]
    /\ UNCHANGED hvars

\* Lines 154-156: the next line is stripped and split.
ReadLine ==
    /\ sp.pc = "read"
    /\ sp.num < Len(sp.disk[spell_fname])
    /\ sp' = [sp EXCEPT
                !.pc = "words",
                !.words = Split(Strip(sp.disk[spell_fname][sp.num + 1]))]
    /\ UNCHANGED hvars

\* Line 159: the file is read through; return ret.
EndOfFile ==
    /\ sp.pc = "read"
    /\ sp.num = Len(sp.disk[spell_fname])
    /\ sp' = [sp EXCEPT !.pc = "done"]
    /\ UNCHANGED hvars

word == Head(sp.words)

\* spell_obj.spell(word), with the query recorded.
Spelled ==
    [sp EXCEPT !.looked_up = Append(sp.looked_up, word)]

\* The inner loop moves to the next word, or the outer loop to the next line.
Advance(s) ==
    IF Tail(s.words) = << >>
    THEN [s EXCEPT !.words = << >>, !.num = s.num + 1, !.pc = "read"]
    ELSE [s EXCEPT !.words = Tail(s.words)]

\* Line 157: spell() answers True; the whitelist is not looked at.
WordKnown ==
    /\ sp.pc = "words"
    /\ word \in sp.dict
    /\ sp' = Advance(Spelled)
    /\ UNCHANGED hvars

\* Line 157: spell() answers False and whitelist was never assigned:
\* UnboundLocalError.
WordRaises ==
    /\ sp.pc = "words"
    /\ word \notin sp.dict
    /\ sp.whitelist = Unbound
    /\ sp' = [Spelled EXCEPT !.pc = "raised"]
    /\ UNCHANGED hvars

\* Line 157: spell() answers False and the word is in the whitelist.
WordWhitelisted ==
    /\ sp.pc = "words"
    /\ word \notin sp.dict
    /\ sp.whitelist # Unbound
    /\ \E k \in 1..Len(sp.whitelist) : sp.whitelist[k] = word
    /\ sp' = Advance(Spelled)
    /\ UNCHANGED hvars

\* Line 158: ret.append((num + 1, (word,))).
WordReported ==
    /\ sp.pc = "words"
    /\ word \notin sp.dict
    /\ sp.whitelist # Unbound
    /\ \A k \in 1..Len(sp.whitelist) : sp.whitelist[k] # word
    /\ sp' = Advance([Spelled EXCEPT
                        !.ret = Append(sp.ret, <<sp.num + 1, word>>)])
    /\ UNCHANGED hvars

InitSpell ==
    /\ pc = "idle"
    /\ consumer = "list"
    /\ header_ref = NoRef
    /\ stream = << >>
    /\ num = 0
    /\ shebang_line = FALSE
    /\ in_mod_docstring = FALSE
    /\ mod_string_done = FALSE
    /\ yielded = << >>
    /\ header_lines = << >>
    /\ linenos = << >>
    /\ run = 1
    /\ edited = 0
    /\ first_yielded = << >>
    /\ \E wa \in WhitelistArgs, ea \in ExcludeArgs, wf \in WhitelistFiles,
          ef \in ExcludeFiles, text \in SpellFiles, known \in Dictionaries :
          sp = [pc |-> "check_spelling",
                whitelist_arg |-> wa,
                exclude_arg |-> ea,
                disk |-> Merge([p \in {spell_fname} |-> text], Merge(wf, ef)),
                dict |-> known,
                whitelist_fname |-> "",
                exclude_fname |-> "",
                whitelist |-> Unbound,
                constructed |-> FALSE,
                opened |-> FALSE,
                num |-> 0,
                words |-> << >>,
                looked_up |-> << >>,
                ret |-> << >>]

NextSpell ==
    \/ ResolveRefs
    \/ NoWhitelist
    \/ WhitelistNotFound
    \/ ReadWhitelist
    \/ Excluded
    \/ NotExcluded
    \/ ConstructHunspell
    \/ OpenFile
    \/ ReadLine
    \/ EndOfFile
    \/ WordKnown
    \/ WordRaises
    \/ WordWhitelisted
    \/ WordReported

SpecSpell == InitSpell /\ [][NextSpell]_vars

-----------------------------------------------------------------------------
(* Properties of check_spelling *)

\* The name a reference file resolves to: the argument, or else the file the
\* search of the ancestor directories finds, or else "".
Resolved(arg, ref_fname) ==
    IF Strip(arg) # "" THEN Strip(arg)
    ELSE _find_ref_fname(sp.disk, spell_fname, ref_fname)

NoWhitelistConfigured == Resolved(sp.whitelist_arg, REF_WHITELIST) = ""

\* The words of the whitelist file check_spelling loads, if it loads one.
LoadedWhitelist ==
    LET name == Resolved(sp.whitelist_arg, REF_WHITELIST)
    IN  IF name # "" /\ Exists(Abspath(name))
        THEN { Strip(sp.disk[Abspath(name)][k]) :
                  k \in 1..Len(sp.disk[Abspath(name)]) }
        ELSE {}

\* The linted file's path matches a pattern of the exclude list.
ExcludeListMatches ==
    LET name == Resolved(sp.exclude_arg, REF_EXCLUDE)
    IN  /\ name # ""
        /\ Exists(Abspath(name))
        /\ \E k \in 1..Len(sp.disk[Abspath(name)]) :
              fnmatch(spell_fname,
                      _make_abspath(Strip(sp.disk[Abspath(name)][k])))

\* The (line number, word) pairs of the words of lines 1..n that the
\* vocabulary lookup reports unknown.
RECURSIVE UnknownWords(_)
UnknownWords(n) ==
    IF n = 0 THEN << >>
    ELSE LET IsUnknown(w) == w \notin sp.dict
             unknown == SelectSeq(Split(Strip(sp.disk[spell_fname][n])),
                                  IsUnknown)
         IN  UnknownWords(n - 1) \o [k \in 1..Len(unknown) |-> <<n, unknown[k]>>]

\* C3 as claimed: without a whitelist file the check does not fail, and
\* returns every word the lookup reports unknown with its line number.
C3_NoWhitelistDoesNotFail ==
    NoWhitelistConfigured
    => /\ sp.pc # "raised"
       /\ (sp.pc = "done" /\ ~ExcludeListMatches)
          => sp.ret = UnknownWords(Len(sp.disk[spell_fname]))

\* C7 as claimed: every word looked up is a non-empty run of letters.
C7_LookedUpWordsAreLetterRuns ==
    \A k \in 1..Len(sp.looked_up) :
        /\ sp.looked_up[k] # ""
        /\ \A i \in 1..Len(sp.looked_up[k]) : Ch(sp.looked_up[k], i) \in Letters

\* C8: no finding carries a word of the loaded whitelist.
C8_WhitelistedWordsNeverReported ==
    \A k \in 1..Len(sp.ret) : sp.ret[k][2] \notin LoadedWhitelist

C8_Witness ==
    /\ sp.pc = "done"
    /\ "Teh" \in LoadedWhitelist
    /\ "Teh" \notin sp.dict
    /\ \E k \in 1..Len(sp.looked_up) : sp.looked_up[k] = "Teh"
    /\ \E k \in 1..Len(sp.ret) : sp.ret[k][2] = "quick"

\* C9: when the linted file's path matches a pattern of the exclude list, the
\* vocabulary is never constructed nor queried, the linted file is never
\* opened, and the call returns the empty list.
C9_ExcludedFileIsNeverRead ==
    ExcludeListMatches
    => /\ ~sp.constructed
       /\ ~sp.opened
       /\ sp.looked_up = << >>
       /\ sp.pc \in {"check_spelling", "whitelist", "exclude", "done"}
       /\ sp.pc = "done" => sp.ret = << >>

C9_Witness ==
    /\ sp.pc = "done"
    /\ ExcludeListMatches
    /\ sp.disk[spell_fname] = << "Teh quick fox.\n" >>
    /\ sp.dict = {}
    /\ sp.ret = << >>

=============================================================================
